---- MODULE Spec2Model ----
(***************************************************************************)
(* MongoPackage: a facade over the mongoose driver.  The facade's methods  *)
(* are async functions: the part of a method up to its first await runs in *)
(* the step that calls it, the driver call is then in flight (pending),    *)
(* the driver settles it (DriverReturn), and the method's continuation     *)
(* runs (Resume).  The driver is outside the repository: it is modelled by  *)
(* what its documented operations do to a collection, and every driver     *)
(* call may also fail.                                                     *)
(***************************************************************************)
EXTENDS Integers, Sequences, FiniteSets, TLC

VARIABLES facade, conn, store, pending, call

vars == <<facade, conn, store, pending, call>>

--------------------------------------------------------------------------
(* Bounds and input sets *)

\* longest items array given to insertArray
MaxItems == 2

NoModel == "null"
NoUri == "null"
Facades == {"f1", "f2"}
Models == {"M1", "M2"}
Ids == {1, 2}

\* JavaScript values that reach a type test in the code
JNull == [t |-> "null"]
JString == [t |-> "string"]
JArray(s) == [t |-> "array", v |-> s]
JBool(b) == [t |-> "bool", v |-> b]
JDoc(d) == [t |-> "doc", v |-> d]
JDocs(ds) == [t |-> "docs", v |-> ds]
JInfo(r) == [t |-> "info", v |-> r]
JError(e) == [t |-> "error", v |-> e]
JNum(n) == [t |-> "num", v |-> n]
JUndef == [t |-> "undefined"]
EmptyObj == [k \in {} |-> 0]

\* the settings each facade is constructed with by the client program
SettingsOf(f) ==
  IF f = "f1" THEN [mongoUri |-> "u1", model |-> "M1"]
              ELSE [mongoUri |-> "u2", model |-> NoModel]
BadSettings == [mongoUri |-> NoUri, model |-> NoModel]

Items == {[_id |-> 1], [_id |-> 1, nome |-> "a"], [_id |-> 2, nome |-> "a"]}
\* the documents given to insertArray
ArrayItems == {d \in Items : "nome" \in DOMAIN d}
ItemSeqs == UNION {[1..n -> ArrayItems] : n \in 0..MaxItems}
ItemsArgs == {JNull} \cup {JArray(s) : s \in ItemSeqs}
ModelArgs == {NoModel, "M2"}

Eq(q) == [op |-> "eq", q |-> q]
Queries == {Eq(EmptyObj), Eq([_id |-> 1]), Eq([nome |-> "a"])}
IdsArgs == {JNull, JString, JArray(<<>>), JArray(<<1>>), JArray(<<1, 2>>)}
FindOptions == {EmptyObj, [limit |-> JNum(1), hint |-> JString]}
AggOptions == {[allowDiskUse |-> JBool(FALSE)], [allowDiskUse |-> JNull],
               [maxTimeMS |-> JNum(1), comment |-> JString]}
Pipelines == {<<>>, <<[match |-> Eq([nome |-> "a"])]>>}
FieldNames == {"nome"}
FieldValues == {"a"}

\* errors the driver raises on its own (network, timeout, ...)
DriverErrors == {"EDRIVER"}

--------------------------------------------------------------------------
(* The driver (mongoose), as far as the facade uses it *)

Merge(d, item) ==
  [k \in (DOMAIN d) \cup (DOMAIN item) |-> IF k \in DOMAIN item THEN item[k] ELSE d[k]]

HasId(coll, id) == \E d \in coll : d._id = id

\* Model.findByIdAndUpdate(id, {$set: item}, {new, upsert}): <<collection, value>>
FindByIdAndUpdate(coll, id, update, options) ==
  IF HasId(coll, id)
    THEN LET old == CHOOSE d \in coll : d._id = id
             new == Merge(old, update.set)
         IN  <<(coll \ {old}) \cup {new}, JDoc(IF options.new THEN new ELSE old)>>
    ELSE IF options.upsert
      THEN LET new == Merge([_id |-> id], update.set)
           IN  <<coll \cup {new}, IF options.new THEN JDoc(new) ELSE JNull>>
      ELSE <<coll, JNull>>


\* new Model(item).save(): an insert, refused when the _id is taken
Save(coll, doc) ==
  IF HasId(coll, doc._id) THEN <<coll, JError("E11000")>>
                          ELSE <<coll \cup {doc}, JDoc(doc)>>

\* a filter is {field: value, ...} (op "eq") or {_id: {$in: ids}} (op "idIn")
Matches(d, flt) ==
  IF flt.op = "idIn"
    THEN \E j \in 1..Len(flt.ids) : flt.ids[j] = d._id
    ELSE \A k \in DOMAIN flt.q : k \in DOMAIN d /\ d[k] = flt.q[k]

Matching(coll, flt) == {d \in coll : Matches(d, flt)}

\* Model.exists(query): {_id} of some matching document, or null
ExistsValues(coll, flt) ==
  IF Matching(coll, flt) = {} THEN {JNull}
  ELSE {JDoc([_id |-> d._id]) : d \in Matching(coll, flt)}

\* Model.deleteMany(filter)
DeleteMany(coll, flt) ==
  <<coll \ Matching(coll, flt), JInfo([deletedCount |-> Cardinality(Matching(coll, flt))])>>

\* find(filter, options): the matching documents, at most options.limit of them
FindValues(coll, flt, options) ==
  LET m == Matching(coll, flt)
      n == Cardinality(m)
      lim == IF "limit" \in DOMAIN options /\ options.limit.t = "num"
                  /\ options.limit.v > 0 /\ options.limit.v < n
             THEN options.limit.v ELSE n
  IN  {JDocs(s) : s \in {x \in SUBSET m : Cardinality(x) = lim}}

\* aggregate(pipeline): every stage of the modelled pipelines is a $match
Aggregate(coll, pipeline) ==
  JDocs({d \in coll : \A j \in 1..Len(pipeline) : Matches(d, pipeline[j].match)})

\* Model.updateMany(filter, {$set: fields})
UpdateMany(coll, flt, update) ==
  LET hit == Matching(coll, flt)
      changed == {d \in hit : Merge(d, update.set) # d}
  IN  <<(coll \ hit) \cup {Merge(d, update.set) : d \in hit},
        JInfo([modifiedCount |-> Cardinality(changed)])>>

Ok(v) == [ok |-> TRUE, val |-> v]
Fail(e) == [ok |-> FALSE, val |-> e]

Outcome(st, cn, reply) == [store |-> st, conn |-> cn, reply |-> reply]

\* what the driver may answer to an in-flight request, and what it does meanwhile.
\* A model operation is buffered until the connection is open; any call may fail.
DriverOutcomes(req) ==
  LET m == req.target
      a == req.args
      failures == {Outcome(store, conn, Fail(JError(e))) : e \in DriverErrors}
      put(pair) == IF pair[2].t = "error"
                     THEN Outcome(store, conn, Fail(pair[2]))
                     ELSE Outcome([store EXCEPT ![m] = pair[1]], conn, Ok(pair[2]))
      get(v) == Outcome(store, conn, Ok(v))
      data ==
        CASE req.method = "findByIdAndUpdate" ->
               {put(FindByIdAndUpdate(store[m], a.id, a.update, a.options))}
          [] req.method = "save" -> {put(Save(store[m], a.doc))}
          [] req.method = "exists" -> {get(v) : v \in ExistsValues(store[m], a.filter)}
          [] req.method = "deleteMany" -> {put(DeleteMany(store[m], a.filter))}
          [] req.method = "find" -> {get(v) : v \in FindValues(store[m], a.filter, a.options)}
          [] req.method = "aggregate" -> {get(Aggregate(store[m], a.pipeline))}
          [] req.method = "updateMany" -> {put(UpdateMany(store[m], a.filter, a.update))}
          [] req.method = "collection.find" ->
               {get(v) : v \in FindValues(store[m], a.filter, a.options)}
          [] req.method = "collection.aggregate" -> {get(Aggregate(store[m], a.pipeline))}
          [] OTHER -> {}
  IN  failures \cup
      (CASE req.method = "connect" ->
              IF conn.state # "connected" \/ conn.uri = a.uri
                THEN {Outcome(store, [state |-> "connected", uri |-> a.uri], Ok(JUndef))}
                ELSE {}
         [] req.method = "disconnect" ->
              {Outcome(store, [state |-> IF conn.state = "none" THEN "none" ELSE "closed",
                               uri |-> conn.uri], Ok(JUndef))}
         [] OTHER -> IF conn.state = "connected" THEN data ELSE {})

--------------------------------------------------------------------------
(* The facade: helpers *)

Idle == [pc |-> "idle"]

NewCall(op, f, args) ==
  [pc |-> "run", op |-> op, f |-> f, args |-> args, i |-> 0, results |-> <<>>,
   replies |-> <<>>, result |-> Ok(JUndef), log |-> <<>>]

Request(method, target, args, idx) ==
  [method |-> method, target |-> target, args |-> args, idx |-> idx]

InFlight(who, k, r) ==
  [who |-> who, k |-> k, method |-> r.method, target |-> r.target, args |-> r.args,
   idx |-> r.idx]

\* the requests a call has in flight
PendingOf(who) == {p \in pending : p.who = who}

\* a catch block that logs and does not throw
Swallow(e) == Ok(JUndef)

\* catch (error) { console.error(...); throw error; }
Rethrow(e) == Fail(e)

Throw(c, e) == [c EXCEPT !.pc = "done", !.result = Rethrow(e)]
Return(c, v) == [c EXCEPT !.pc = "done", !.result = Ok(v)]

\* c starts the driver calls reqs (a sequence) and awaits
Invoke(c, reqs) ==
  /\ call' = [c EXCEPT !.pc = "await", !.log = c.log \o reqs]
  /\ pending' = pending \cup {InFlight("call", Len(c.log) + j, reqs[j]) : j \in 1..Len(reqs)}

Settle(c) ==
  /\ call' = c
  /\ UNCHANGED pending

NoModelError == JError("No model specified or default model provided")
NotArrayError == JError("Input must be an array of _id")
TypeError == JError("TypeError")

\* getModel: if (!model && !this.defaultModel) throw
GetModelThrows(f, model) == model = NoModel /\ facade[f].defaultModel = NoModel

\* the default model taking precedence over the one passed
GetModelDefaultFirst(f, model) ==
  IF facade[f].defaultModel # NoModel THEN facade[f].defaultModel ELSE model

\* getModel: return model || this.defaultModel
GetModel(f, model) == IF model # NoModel THEN model ELSE facade[f].defaultModel

\* an update that does not insert
InsertItemRequestNoUpsert(item, updateIfExists, m, idx) ==
  IF updateIfExists
    THEN [method |-> "findByIdAndUpdate", target |-> m,
          args |-> [id |-> item._id, update |-> [set |-> item],
                    options |-> [new |-> TRUE, upsert |-> FALSE]], idx |-> idx]
    ELSE [method |-> "save", target |-> m, args |-> [doc |-> item], idx |-> idx]

\* insertItem's driver call for one item on the active model m
InsertItemRequest(item, updateIfExists, m, idx) ==
  IF updateIfExists
    THEN Request("findByIdAndUpdate", m,
                 [id |-> item._id, update |-> [set |-> item],
                  options |-> [new |-> TRUE, upsert |-> TRUE]], idx)
    ELSE Request("save", m, [doc |-> item], idx)

\* insertItem's value: the driver's document (upsert) or the new document (save)
InsertItemValue(item, updateIfExists, reply) ==
  IF updateIfExists THEN reply.val ELSE JDoc(item)

\* the driver's value returned as it is
ToBooleanRaw(v) == v

\* !!exists
ToBoolean(v) == JBool(v.t # "null")

\* if (!items || items.length === 0)
ItemsEmpty(items) == items.t = "null" \/ Len(items.v) = 0

\* every insert started at once (items.map + Promise.all)
LoopIssueAll(items, i) == IF i = 1 THEN [j \in 1..Len(items) |-> j] ELSE <<>>

\* for (const item of items) { await this.insertItem(item, ...) }: the positions
\* whose insert is started when the loop reaches position i
LoopIssue(items, i) == <<i>>

\* results.unshift(result)
PushResultFront(results, r) == <<r>> \o results

\* results.push(result)
PushResult(results, r) == Append(results, r)

\* the failure swallowed and the results so far returned
InsertArrayFailPartial(c, e) == [c EXCEPT !.pc = "done", !.result = Ok(JArray(c.results))]

\* insertArray's catch: the first failing insertItem ends the call
InsertArrayFail(c, e) == Throw(c, e)

\* a filter that matches every document
IdInFilterAll(ids) == [op |-> "eq", q |-> EmptyObj]

\* { _id: { $in: ids } }
IdInFilter(ids) == [op |-> "idIn", ids |-> ids]

\* activeModel.find(query, null, options)
FindArgs(query, options) == [filter |-> query, projection |-> JNull, options |-> options]

Get(options, k) == IF k \in DOMAIN options THEN options[k] ELSE JUndef

\* the caller's option object handed over whole
PickFindOptionsWhole(options) == options

\* queryCollection: the option object built for coll.find
PickFindOptions(options) ==
  [limit |-> Get(options, "limit"), skip |-> Get(options, "skip"),
   sort |-> Get(options, "sort"), projection |-> Get(options, "projection"),
   batchSize |-> Get(options, "batchSize"),
   readPreference |-> Get(options, "readPreference")]

\* aggregateCollection: the option object built for coll.aggregate
PickAggregateOptions(options) ==
  [allowDiskUse |-> IF Get(options, "allowDiskUse").t \in {"undefined", "null"}
                      THEN JBool(TRUE) ELSE options.allowDiskUse,
   maxTimeMS |-> Get(options, "maxTimeMS"),
   bypassDocumentValidation |-> Get(options, "bypassDocumentValidation")]

\* { $set: { [fieldName]: value } }
SetField(fieldName, value) == [set |-> [k \in {fieldName} |-> value]]

--------------------------------------------------------------------------
(* The facade: operations *)

Init ==
  /\ facade = [f \in Facades |-> [constructed |-> FALSE, mongoUri |-> NoUri,
                                  defaultModel |-> NoModel]]
  /\ conn = [state |-> "none", uri |-> NoUri]
  /\ store = [m \in Models |-> {}]
  /\ pending = {}
  /\ call = Idle

Constructed(f) == facade[f].constructed
CanCall(f) == call.pc = "idle" /\ Constructed(f)

\* a connection of the instance's own (mongoose.createConnection)
OwnConnection(f) == f

\* mongoose.connect, mongoose.disconnect, mongoose.connection: the module's
\* default connection, whichever instance asks
DriverConnection(f) == "mongoose"

\* new MongoPackage(settings): sets the fields and calls this.connect() unawaited
Construct(f, settings) ==
  /\ ~Constructed(f)
  /\ IF settings.mongoUri = NoUri
       THEN UNCHANGED <<facade, pending>>
       ELSE /\ facade' = [facade EXCEPT ![f] = [constructed |-> TRUE,
                                                mongoUri |-> settings.mongoUri,
                                                defaultModel |-> settings.model]]
            /\ pending' = pending \cup
                 {InFlight(f, 1, Request("connect", DriverConnection(f),
                                         [uri |-> settings.mongoUri], 0))}
  /\ UNCHANGED <<conn, store, call>>

Call_connect(f) ==
  /\ CanCall(f)
  /\ Invoke(NewCall("connect", f, EmptyObj),
            <<Request("connect", DriverConnection(f), [uri |-> facade[f].mongoUri], 0)>>)
  /\ UNCHANGED <<facade, conn, store>>

Call_disconnect(f) ==
  /\ CanCall(f)
  /\ Invoke(NewCall("disconnect", f, EmptyObj),
            <<Request("disconnect", DriverConnection(f), EmptyObj, 0)>>)
  /\ UNCHANGED <<facade, conn, store>>

Call_insertItem(f, item, updateIfExists, model) ==
  /\ CanCall(f)
  /\ LET c == NewCall("insertItem", f, [item |-> item, updateIfExists |-> updateIfExists,
                                        model |-> model])
     IN  IF GetModelThrows(f, model)
           THEN Settle(Throw(c, NoModelError))
           ELSE Invoke(c, <<InsertItemRequest(item, updateIfExists, GetModel(f, model), 0)>>)
  /\ UNCHANGED <<facade, conn, store>>

Call_existsItem(f, query, model) ==
  /\ CanCall(f)
  /\ LET c == NewCall("existsItem", f, [query |-> query, model |-> model])
     IN  IF GetModelThrows(f, model)
           THEN Settle(Throw(c, NoModelError))
           ELSE Invoke(c, <<Request("exists", GetModel(f, model), [filter |-> query], 0)>>)
  /\ UNCHANGED <<facade, conn, store>>

\* one turn of insertArray's loop, at position c.i: insertItem up to its await
LoopStep(c) ==
  IF GetModelThrows(c.f, c.args.model)
    THEN Settle(InsertArrayFail(c, Rethrow(NoModelError).val))
    ELSE LET at == LoopIssue(c.args.items.v, c.i)
         IN  Invoke(c, [j \in 1..Len(at) |->
                          InsertItemRequest(c.args.items.v[at[j]], c.args.updateIfExists,
                                            GetModel(c.f, c.args.model), at[j])])

Call_insertArray(f, items, updateIfExists, model) ==
  /\ CanCall(f)
  /\ LET c == NewCall("insertArray", f, [items |-> items, updateIfExists |-> updateIfExists,
                                         model |-> model])
     IN  IF ItemsEmpty(items)
           THEN Settle(Return(c, JArray(<<>>)))
           ELSE LoopStep([c EXCEPT !.i = 1])
  /\ UNCHANGED <<facade, conn, store>>

Call_deleteItems(f, ids, model) ==
  /\ CanCall(f)
  /\ LET c == NewCall("deleteItems", f, [ids |-> ids, model |-> model])
     IN  IF ids.t # "array"
           THEN Settle(Throw(c, NotArrayError))
           ELSE IF GetModelThrows(f, model)
             THEN Settle(Throw(c, NoModelError))
             ELSE Invoke(c, <<Request("deleteMany", GetModel(f, model),
                                      [filter |-> IdInFilter(ids.v)], 0)>>)
  /\ UNCHANGED <<facade, conn, store>>

Call_findItems(f, query, options, model) ==
  /\ CanCall(f)
  /\ LET c == NewCall("findItems", f, [query |-> query, options |-> options, model |-> model])
     IN  IF GetModelThrows(f, model)
           THEN Settle(Throw(c, NoModelError))
           ELSE Invoke(c, <<Request("find", GetModel(f, model), FindArgs(query, options), 0)>>)
  /\ UNCHANGED <<facade, conn, store>>

Call_runAggregation(f, pipeline, model) ==
  /\ CanCall(f)
  /\ LET c == NewCall("runAggregation", f, [pipeline |-> pipeline, model |-> model])
     IN  IF GetModelThrows(f, model)
           THEN Settle(Throw(c, NoModelError))
           ELSE Invoke(c, <<Request("aggregate", GetModel(f, model),
                                    [pipeline |-> pipeline], 0)>>)
  /\ UNCHANGED <<facade, conn, store>>

\* mongoose.connection.db: set while connected, undefined before the first
\* connection; after a disconnect the driver may or may not have dropped it
DbDefined == IF conn.state = "connected" THEN {TRUE}
             ELSE IF conn.state = "none" THEN {FALSE} ELSE {TRUE, FALSE}

Call_queryCollection(f, collectionName, filter, options) ==
  /\ CanCall(f)
  /\ LET c == NewCall("queryCollection", f, [collectionName |-> collectionName,
                                             filter |-> filter, options |-> options])
     IN  \E db \in DbDefined :
           IF ~db
             THEN Settle(Throw(c, TypeError))
             ELSE Invoke(c, <<Request("collection.find", collectionName,
                                      [filter |-> filter,
                                       options |-> PickFindOptions(options)], 0)>>)
  /\ UNCHANGED <<facade, conn, store>>

Call_aggregateCollection(f, collectionName, pipeline, options) ==
  /\ CanCall(f)
  /\ LET c == NewCall("aggregateCollection", f, [collectionName |-> collectionName,
                                                 pipeline |-> pipeline, options |-> options])
     IN  \E db \in DbDefined :
           IF ~db
             THEN Settle(Throw(c, TypeError))
             ELSE Invoke(c, <<Request("collection.aggregate", collectionName,
                                      [pipeline |-> pipeline,
                                       options |-> PickAggregateOptions(options)], 0)>>)
  /\ UNCHANGED <<facade, conn, store>>

Call_updateManyField(f, filter, fieldName, value, model) ==
  /\ CanCall(f)
  /\ LET c == NewCall("updateManyField", f, [filter |-> filter, fieldName |-> fieldName,
                                             value |-> value, model |-> model])
     IN  IF GetModelThrows(f, model)
           THEN Settle(Throw(c, NoModelError))
           ELSE Invoke(c, <<Request("updateMany", GetModel(f, model),
                                    [filter |-> filter,
                                     update |-> SetField(fieldName, value)], 0)>>)
  /\ UNCHANGED <<facade, conn, store>>

\* the driver settles one in-flight call; the caller's continuation is then due.
\* The continuation of the constructor's unawaited connect() only logs.
DriverReturn(p, o) ==
  /\ p \in pending
  /\ o \in DriverOutcomes(p)
  /\ store' = o.store
  /\ conn' = o.conn
  /\ pending' = pending \ {p}
  /\ call' = IF p.who = "call"
               THEN [call EXCEPT !.pc = "resume", !.replies = Append(@, o.reply)]
               ELSE call
  /\ UNCHANGED facade

LastReply == call.replies[Len(call.replies)]

PassThroughOps == {"connect", "disconnect", "deleteItems", "findItems", "runAggregation",
                   "queryCollection", "aggregateCollection", "updateManyField"}

\* after the await: return the driver's value, or log and rethrow its error
Resume_passThrough ==
  /\ call.pc = "resume" /\ call.op \in PassThroughOps
  /\ call' = IF LastReply.ok THEN Return(call, LastReply.val)
                             ELSE Throw(call, LastReply.val)
  /\ UNCHANGED <<facade, conn, store, pending>>

Resume_existsItem ==
  /\ call.pc = "resume" /\ call.op = "existsItem"
  /\ call' = IF LastReply.ok THEN Return(call, ToBoolean(LastReply.val))
                             ELSE Throw(call, LastReply.val)
  /\ UNCHANGED <<facade, conn, store, pending>>

Resume_insertItem ==
  /\ call.pc = "resume" /\ call.op = "insertItem"
  /\ call' = IF LastReply.ok
               THEN Return(call, InsertItemValue(call.args.item, call.args.updateIfExists,
                                                 LastReply))
               ELSE Throw(call, LastReply.val)
  /\ UNCHANGED <<facade, conn, store, pending>>

\* insertItem settles inside insertArray's loop: push and go on, or fail
Resume_insertArray ==
  /\ call.pc = "resume" /\ call.op = "insertArray"
  /\ IF ~LastReply.ok
       THEN Settle(InsertArrayFail(call, Rethrow(LastReply.val).val))
       ELSE LET item == call.args.items.v[call.i]
                c == [call EXCEPT !.results =
                        PushResult(@, InsertItemValue(item, call.args.updateIfExists,
                                                      LastReply))]
            IN  IF call.i < Len(call.args.items.v)
                  THEN LoopStep([c EXCEPT !.i = call.i + 1])
                  ELSE Settle(Return(c, JArray(c.results)))
  /\ UNCHANGED <<facade, conn, store>>

\* the caller takes the settled promise
Finish ==
  /\ call.pc = "done"
  /\ call' = Idle
  /\ UNCHANGED <<facade, conn, store, pending>>

Next ==
  \/ \E f \in Facades : \E s \in {SettingsOf(f), BadSettings} : Construct(f, s)
  \/ \E f \in Facades : Call_connect(f)
  \/ \E f \in Facades : Call_disconnect(f)
  \/ \E f \in Facades, item \in Items, u \in BOOLEAN, m \in ModelArgs :
       Call_insertItem(f, item, u, m)
  \/ \E f \in Facades, q \in Queries, m \in ModelArgs : Call_existsItem(f, q, m)
  \/ \E f \in Facades, items \in ItemsArgs, u \in BOOLEAN, m \in ModelArgs :
       Call_insertArray(f, items, u, m)
  \/ \E f \in Facades, ids \in IdsArgs, m \in ModelArgs : Call_deleteItems(f, ids, m)
  \/ \E f \in Facades, q \in Queries, o \in FindOptions, m \in ModelArgs :
       Call_findItems(f, q, o, m)
  \/ \E f \in Facades, pl \in Pipelines, m \in ModelArgs : Call_runAggregation(f, pl, m)
  \/ \E f \in Facades, cn \in Models, q \in Queries, o \in FindOptions :
       Call_queryCollection(f, cn, q, o)
  \/ \E f \in Facades, cn \in Models, pl \in Pipelines, o \in AggOptions :
       Call_aggregateCollection(f, cn, pl, o)
  \/ \E f \in Facades, q \in Queries, k \in FieldNames, v \in FieldValues, m \in ModelArgs :
       Call_updateManyField(f, q, k, v, m)
  \/ \E p \in pending : \E o \in DriverOutcomes(p) : DriverReturn(p, o)
  \/ Resume_passThrough
  \/ Resume_existsItem
  \/ Resume_insertItem
  \/ Resume_insertArray
  \/ Finish

Spec == Init /\ [][Next]_vars

--------------------------------------------------------------------------
(* Properties *)

Active == call.pc # "idle"
Done == call.pc = "done"
DriverFailed == Done /\ call.replies # <<>> /\ ~LastReply.ok

\* C1: when the driver call of an operation fails with error e, the operation
\* fails with that same e, and the failing driver call was made exactly once:
\* every driver call the operation started got one answer, none was started
\* after the failure, and no call is left in flight.
C1_DriverErrorRethrownOnce ==
  DriverFailed =>
    /\ ~call.result.ok
    /\ call.result.val = LastReply.val
    /\ Len(call.log) = Len(call.replies)
    /\ \A j, k \in 1..Len(call.log) : call.log[j] = call.log[k] => j = k
    /\ PendingOf("call") = {}

\* an insertArray whose second insert the driver failed has failed itself
C1_Witness ==
  /\ DriverFailed
  /\ call.op = "insertArray"
  /\ Len(call.replies) = 2
  /\ call.result.val = JError("EDRIVER")

IsInsertArray == Active /\ call.op = "insertArray"

\* C2: one insertArray call has at most one insert in flight, starts the
\* inserts in input order, and starts the insert of items[i+1] only after the
\* insert of items[i] has been answered.
C2_OneInsertInFlight ==
  IsInsertArray =>
    /\ Cardinality(PendingOf("call")) <= 1
    /\ \A k \in 1..Len(call.log) : call.log[k].idx = k
    /\ Len(call.log) <= Len(call.replies) + 1
    /\ Cardinality(PendingOf("call")) = Len(call.log) - Len(call.replies)

\* the second insert of a batch is in flight, the first one answered
C2_Witness ==
  /\ IsInsertArray
  /\ call.pc = "await"
  /\ Len(call.log) = 2
  /\ Len(call.replies) = 1

Carries(coll, item) ==
  \E d \in coll : /\ d._id = item._id
                  /\ \A k \in DOMAIN item : k \in DOMAIN d /\ d[k] = item[k]

\* C3: when the insert of items[k] is the first to fail, insertArray fails with
\* that error (no array is returned), no insert was started for a later item,
\* the call made nothing but inserts (nothing undoes a write), and the
\* documents written for the earlier items are in the store.
C3_FirstFailureEndsBatch ==
  (DriverFailed /\ call.op = "insertArray") =>
    LET k == Len(call.replies)
        items == call.args.items.v
    IN  /\ \A j \in 1..(k - 1) : call.replies[j].ok
        /\ ~call.result.ok
        /\ call.result.val = call.replies[k].val
        /\ {call.log[j].idx : j \in 1..Len(call.log)} = 1..k
        /\ \A j \in 1..Len(call.log) :
             call.log[j].method \in {"save", "findByIdAndUpdate"}
        /\ \A j \in 1..(k - 1) : Carries(store[call.log[j].target], items[j])

\* a batch of two whose first item was written and whose second insert failed
C3_Witness ==
  /\ DriverFailed
  /\ call.op = "insertArray"
  /\ Len(call.args.items.v) = 2
  /\ Len(call.replies) = 2
  /\ call.replies[1].ok
  /\ store[call.log[1].target] # {}

Called == Active /\ call.log # <<>>
Answered == Done /\ call.replies # <<>> /\ LastReply.ok
FindOptionKeys == {"limit", "skip", "sort", "projection", "batchSize", "readPreference"}
AggregateOptionKeys == {"allowDiskUse", "maxTimeMS", "bypassDocumentValidation"}
Given(options, k) == IF k \in DOMAIN options THEN options[k] ELSE JUndef

ModelOps == {"insertItem", "existsItem", "insertArray", "deleteItems", "findItems",
             "runAggregation", "updateManyField"}
IsModelCall == Active /\ call.op \in ModelOps
NoModelAtAll == call.args.model = NoModel /\ facade[call.f].defaultModel = NoModel
Resolved == IF call.args.model # NoModel THEN call.args.model ELSE facade[call.f].defaultModel
DefaultModelKept ==
  \A f \in Facades : Constructed(f) => facade[f].defaultModel = SettingsOf(f).model

\* C5 as stated: every model-based operation acts on the model passed, else on
\* the default model; with neither it fails with 'No model specified or
\* default model provided' and makes no driver call; the default model stays
\* what the constructor set.
C5_ModelResolution ==
  /\ DefaultModelKept
  /\ IsModelCall =>
       IF NoModelAtAll
         THEN Done /\ ~call.result.ok /\ call.result.val = NoModelError /\ call.log = <<>>
         ELSE \A k \in 1..Len(call.log) : call.log[k].target = Resolved

\* insertArray with no items and deleteItems with a non-array never look the model up
SkipsModelLookup ==
  \/ call.op = "insertArray" /\ (call.args.items.t = "null" \/ call.args.items.v = <<>>)
  \/ call.op = "deleteItems" /\ call.args.ids.t # "array"

\* C5 amended: as stated, except that insertArray with null or empty items
\* (which returns []) and deleteItems with a non-array (which fails with
\* 'Input must be an array of _id') end before the model is looked up, so
\* with no model available they do not fail with the no-model error.
C5_ModelResolutionUnlessEarlyExit ==
  /\ DefaultModelKept
  /\ IsModelCall =>
       /\ call.log # <<>> => ~NoModelAtAll
       /\ \A k \in 1..Len(call.log) : call.log[k].target = Resolved
       /\ (NoModelAtAll /\ ~SkipsModelLookup) =>
            Done /\ ~call.result.ok /\ call.result.val = NoModelError /\ call.log = <<>>
       /\ (NoModelAtAll /\ SkipsModelLookup) =>
            /\ Done /\ call.log = <<>>
            /\ call.op = "insertArray" => call.result.ok /\ call.result.val = JArray(<<>>)
            /\ call.op = "deleteItems" => ~call.result.ok /\ call.result.val = NotArrayError

\* a facade with a default model is called with another model and uses that one
C5_Witness ==
  /\ IsModelCall
  /\ Called
  /\ facade[call.f].defaultModel = "M1"
  /\ call.args.model = "M2"
  /\ call.log[1].target = "M2"

\* the driver answers the insert a call is awaiting
InsertAnswered ==
  /\ call.pc = "await" /\ call.op \in {"insertItem", "insertArray"}
  /\ call'.pc = "resume"
AwaitedItem == IF call.op = "insertItem" THEN call.args.item ELSE call.args.items.v[call.i]
AwaitedRequest == call.log[Len(call.log)]
NewReply == call'.replies[Len(call'.replies)]
WithId(coll, id) == {d \in coll : d._id = id}
WithoutId(coll, id) == {d \in coll : d._id # id}

\* C6: insertItem(item, true) is an update-or-insert keyed by item._id: once
\* the driver has answered it, the store holds exactly one document with that
\* _id, carrying the item's fields, whether or not one existed, every other
\* document is as before, and applied to a store that already carries the
\* item (the state a first call leaves) it changes nothing.  insertItem(item,
\* false) always asks for a new document to be saved: when the _id is taken it
\* fails and the existing document is as before, otherwise the item is added.
C6_UpsertByIdInsertCreates ==
  [][InsertAnswered =>
       LET item == AwaitedItem
           m == AwaitedRequest.target
       IN  /\ \A x \in Models \ {m} : store'[x] = store[x]
           /\ WithoutId(store'[m], item._id) = WithoutId(store[m], item._id)
           /\ ~NewReply.ok => store' = store
           /\ (call.args.updateIfExists /\ NewReply.ok) =>
                /\ Cardinality(WithId(store'[m], item._id)) = 1
                /\ Carries(store'[m], item)
                /\ Carries(store[m], item) => store' = store
                /\ NewReply.val.t = "doc" /\ NewReply.val.v \in store'[m]
           /\ ~call.args.updateIfExists =>
                /\ AwaitedRequest.method = "save"
                /\ WithId(store[m], item._id) # {} => ~NewReply.ok
                /\ NewReply.ok => store'[m] = store[m] \cup {item}
    ]_vars

\* an upsert answered for an _id whose document existed with a field of its own
C6_Witness ==
  /\ call.pc = "resume"
  /\ call.op = "insertItem"
  /\ call.args.updateIfExists
  /\ LastReply.ok
  /\ call.args.item = [_id |-> 1]
  /\ [_id |-> 1, nome |-> "a"] \in store[call.log[1].target]

\* C7: a successful insertArray returns one result per item, result[i] being
\* the outcome of the insert of items[i]; given null or empty items it
\* returns [] at once, without a driver call, whether or not a model is there.
C7_OneResultPerItemInOrder ==
  IsInsertArray =>
    LET items == call.args.items
    IN  IF items.t = "null" \/ items.v = <<>>
          THEN Done /\ call.result.ok /\ call.result.val = JArray(<<>>) /\ call.log = <<>>
          ELSE (Done /\ call.result.ok) =>
                 /\ call.result.val.t = "array"
                 /\ Len(call.result.val.v) = Len(items.v)
                 /\ Len(call.log) = Len(items.v)
                 /\ \A j \in 1..Len(items.v) :
                      /\ call.log[j].idx = j
                      /\ call.replies[j].ok
                      /\ IF call.args.updateIfExists
                           THEN /\ call.log[j].args.update.set = items.v[j]
                                /\ call.result.val.v[j] = call.replies[j].val
                           ELSE /\ call.log[j].args.doc = items.v[j]
                                /\ call.result.val.v[j] = JDoc(items.v[j])

\* a batch of two different items has succeeded
C7_Witness ==
  /\ IsInsertArray
  /\ Done
  /\ call.result.ok
  /\ call.args.items.t = "array"
  /\ Len(call.args.items.v) = 2
  /\ call.args.items.v[1] # call.args.items.v[2]
  /\ call.result.val.v[1] # call.result.val.v[2]

IsDelete == Active /\ call.op = "deleteItems"
DeleteAnswered == call.pc = "await" /\ call.op = "deleteItems" /\ call'.pc = "resume"
ListedIds == {call.args.ids.v[j] : j \in 1..Len(call.args.ids.v)}
Listed(coll) == {d \in coll : d._id \in ListedIds}
Unlisted(coll) == {d \in coll : d._id \notin ListedIds}

\* C8: deleteItems with a non-array fails with 'Input must be an array of _id'
\* without a driver call (also when no model is available) and leaves the
\* store as it is; with an array it makes a single deleteMany on
\* {_id: {$in: ids}}, after which no listed document is left and every
\* document whose _id is not listed is as before.
C8_DeleteOnlyListedIds ==
  [][/\ (IsDelete /\ call.args.ids.t # "array")' =>
          (Done /\ ~call.result.ok /\ call.result.val = NotArrayError /\ call.log = <<>>)'
     /\ (IsDelete /\ call.args.ids.t = "array" /\ call.log # <<>>)' =>
          (/\ Len(call.log) = 1
           /\ call.log[1].method = "deleteMany"
           /\ call.log[1].args = [filter |-> [op |-> "idIn", ids |-> call.args.ids.v]])'
     /\ (call.pc = "idle" /\ IsDelete') => store' = store
     /\ DeleteAnswered =>
          LET m == call.log[1].target
          IN  /\ \A x \in Models \ {m} : store'[x] = store[x]
              /\ Unlisted(store'[m]) = Unlisted(store[m])
              /\ ~NewReply.ok => store' = store
              /\ NewReply.ok =>
                   /\ Listed(store'[m]) = {}
                   /\ NewReply.val = JInfo([deletedCount |-> Cardinality(Listed(store[m]))])
    ]_vars

\* a deleteMany has removed a listed document and left an unlisted one
C8_Witness ==
  /\ call.pc = "resume"
  /\ call.op = "deleteItems"
  /\ LastReply.ok
  /\ LastReply.val.v.deletedCount = 1
  /\ store[call.log[1].target] # {}

IsExists == Active /\ call.op = "existsItem"
QueryMatches(d, query) == \A k \in DOMAIN query.q : k \in DOMAIN d /\ d[k] = query.q[k]

\* C9: existsItem returns a boolean, true exactly when a document of the
\* active model matches the query, never the driver's document or null; and
\* no step of an existsItem call changes the store.
C9_ExistsIsBoolean ==
  [][/\ (IsExists /\ Done /\ call.result.ok)' =>
          (/\ call.result.val.t = "bool"
           /\ call.result.val.v = (\E d \in store[Resolved] : QueryMatches(d, call.args.query)))'
     /\ (IsExists \/ IsExists') => store' = store
    ]_vars

\* existsItem has returned true
C9_Witness ==
  /\ IsExists
  /\ Done
  /\ call.result.ok
  /\ call.result.val = JBool(TRUE)

ConnectsInFlight == {p \in pending : p.method = "connect"}

\* C10: at most one driver connect call is in flight at any time: a connection
\* request made while an attempt is in progress starts no other driver connect.
C10_AtMostOneConnectInFlight == Cardinality(ConnectsInFlight) <= 1

ConnectionMethods == {"connect", "disconnect"}
Settled == pending \ pending'
CallAnswered == call.pc = "await" /\ call'.pc = "resume"

\* C11: the connection is one piece of driver state shared by all instances.
\* Every connect and disconnect of every instance addresses the driver's
\* default connection, and the connection changes only when one of them is
\* answered; a disconnect answered for one instance leaves the connection not
\* open, whichever instance opened it, and no model or raw operation of any
\* instance succeeds unless that one connection is open; a connect of another
\* instance, also with another mongoUri, opens that same connection or fails,
\* and never replaces the uri of an open one; an instance itself holds only
\* mongoUri and defaultModel, which no method changes.
C11_SharedConnection ==
  [][/\ \A p \in pending' : p.method \in ConnectionMethods => p.target = "mongoose"
     /\ conn' # conn =>
          \E p \in Settled :
            /\ p.method \in ConnectionMethods
            /\ p.method = "connect" => conn' = [state |-> "connected", uri |-> p.args.uri]
            /\ p.method = "disconnect" => conn'.state = "closed" /\ conn.state = "connected"
     /\ (conn.state = "connected" /\ conn'.state = "connected") => conn'.uri = conn.uri
     /\ (CallAnswered /\ call.op = "disconnect" /\ NewReply.ok) => conn'.state # "connected"
     /\ (CallAnswered /\ call.op = "connect" /\ NewReply.ok) =>
          conn' = [state |-> "connected", uri |-> facade[call.f].mongoUri]
     /\ (CallAnswered /\ call.op \notin ConnectionMethods /\ NewReply.ok) =>
          conn.state = "connected"
     /\ \A f \in Facades :
          /\ DOMAIN facade'[f] = {"constructed", "mongoUri", "defaultModel"}
          /\ Constructed(f) => facade'[f] = facade[f]
    ]_vars

\* disconnect() on the instance built with u1 has closed the connection that
\* the other instance's constructor opened with u2
C11_Witness ==
  /\ call.pc = "resume"
  /\ call.op = "disconnect"
  /\ call.f = "f1"
  /\ LastReply.ok
  /\ Constructed("f2")
  /\ conn = [state |-> "closed", uri |-> "u2"]

====
